---- MODULE Spec2Model ----
(***************************************************************************)
(* A model of the redox kinetics engine, redoxKineticsFull                 *)
(* (src/RedoxPySolid/src/redoxKinetics.cpp).                               *)
(*                                                                         *)
(* One call of the engine is a sequence of steps: the prologue (buffer     *)
(* allocation and initialisation); for each component its overpotentials,  *)
(* the iterations of its rate loop, its window of interest and number of   *)
(* passes, and for each pass the iterations of the current march and of    *)
(* the correction loop; at last Ohm's law and the release of the buffers.  *)
(*                                                                         *)
(* Arithmetic.  The code computes in C++ double.  The model computes in    *)
(* binary floating point with a PREC-bit significand, an unbounded         *)
(* exponent and round-to-nearest-even, so that every formula of the code   *)
(* is evaluated operation by operation in the code's order.  The one       *)
(* expression whose integer result depends on the last bit of a double,    *)
(* ceil(20*loading*1000000000), is evaluated at the full 53 bits of        *)
(* binary64.                                                               *)
(*                                                                         *)
(* Memory.  Buffers are functions on 0..N-1, the code's indices.  A read   *)
(* one past the end of a buffer yields a value the model chooses freely;   *)
(* every out-of-range access is recorded in oobAccess.                     *)
(***************************************************************************)
EXTENDS Integers, Sequences, FiniteSets, TLC

\* Bits of significand of the model's floating point numbers.
PREC == 12

\* 2^u, for u up to 30.
Pow2(u) ==
    IF u <= 0 THEN 1
    ELSE <<2, 4, 8, 16, 32, 64, 128, 256, 512, 1024, 2048, 4096, 8192, 16384, 32768,
           65536, 131072, 262144, 524288, 1048576, 2097152, 4194304, 8388608,
           16777216, 33554432, 67108864, 134217728, 268435456, 536870912,
           1073741824>>[u]

\* The number of bits of u >= 0.
BitLen(u) == Cardinality({b \in 0..30 : Pow2(b) <= u})

Abs(u) == IF u < 0 THEN -u ELSE u

Sgn(u) == IF u < 0 THEN -1 ELSE IF u = 0 THEN 0 ELSE 1

(***************************************************************************)
(* A number is [m, e], of value m * 2^e, with m = 0 and e = 0 for zero     *)
(* and 2^(PREC-1) <= |m| < 2^PREC otherwise.  NaN and the infinities, the  *)
(* results of a division by zero, are records outside that form.           *)
(***************************************************************************)
Zero == [m |-> 0, e |-> 0]

NaN == [m |-> 0, e |-> 1]

Inf(s) == [m |-> s, e |-> 0]

\* mant * 2^e rounded to the nearest number of PREC bits, ties to even.
Round(mant, e) ==
    IF mant = 0 THEN Zero
    ELSE LET a == Abs(mant)
             len == BitLen(a)
         IN  IF len <= PREC
             THEN [m |-> Sgn(mant) * a * Pow2(PREC - len), e |-> e - (PREC - len)]
             ELSE LET s == len - PREC
                      q == a \div Pow2(s)
                      rest == a % Pow2(s)
                      half == Pow2(s - 1)
                      up == rest > half \/ (rest = half /\ q % 2 = 1)
                      q1 == IF up THEN q + 1 ELSE q
                  IN  IF q1 = Pow2(PREC)
                      THEN [m |-> Sgn(mant) * Pow2(PREC - 1), e |-> e + s + 1]
                      ELSE [m |-> Sgn(mant) * q1, e |-> e + s]

FromInt(u) == Round(u, 0)

Neg(a) == [m |-> -a.m, e |-> a.e]

Mul(a, b) == Round(a.m * b.m, a.e + b.e)

Div(a, b) ==
    IF b.m = 0
    THEN IF a.m = 0 THEN NaN ELSE Inf(Sgn(a.m))
    ELSE LET num == Abs(a.m) * Pow2(PREC + 2)
             q == num \div Abs(b.m)
             sticky == IF num % Abs(b.m) = 0 THEN 0 ELSE 1
         IN  Round(Sgn(a.m) * Sgn(b.m) * (2 * q + sticky), a.e - b.e - (PREC + 3))

Add(a, b) ==
    IF a.m = 0 THEN b
    ELSE IF b.m = 0 THEN a
    ELSE LET hi == IF a.e >= b.e THEN a ELSE b
             lo == IF a.e >= b.e THEN b ELSE a
             d == hi.e - lo.e
         IN  IF d > PREC + 2 THEN hi ELSE Round(hi.m * Pow2(d) + lo.m, lo.e)

Sub(a, b) == Add(a, Neg(b))

\* a < b
Lt(a, b) == Sub(a, b).m < 0

\* a > b
Gt(a, b) == Sub(a, b).m > 0

\* The decimal literal u * 10^-k.
RECURSIVE Pow10(_)
Pow10(k) == IF k <= 0 THEN 1 ELSE 10 * Pow10(k - 1)

Dec(u, k) == Div(FromInt(u), FromInt(Pow10(k)))

\* The integer nearest to x.
Nearest(x) ==
    IF x.e >= 0 THEN x.m * Pow2(x.e)
    ELSE IF -x.e > PREC + 1 THEN 0
    ELSE (x.m + Pow2(-x.e - 1)) \div Pow2(-x.e)

(***************************************************************************)
(* exp, in fixed point.  X is x in units of 2^-20 and L is ln 2 in the     *)
(* same units; x = u * ln 2 + y with |y| <= (ln 2) / 2, and exp(x) is      *)
(* 2^u * exp(y), exp(y) by its Taylor polynomial of degree 5 in units of   *)
(* 2^-(PREC+2).  From |x| = 2^10 on, exp(x) is an overflow or zero.        *)
(***************************************************************************)
Exp(x) ==
    IF x.m = 0 THEN (IF x.e = 0 THEN Round(1, 0) ELSE NaN)
    ELSE IF x.e + PREC > 10 THEN (IF x.m > 0 THEN Inf(1) ELSE Zero)
    ELSE LET X == Nearest([m |-> x.m, e |-> x.e + 20])
             L == 726817
             u == (X + (L \div 2)) \div L
             S == Pow2(PREC + 2)
             Y == ((X - u * L) + Pow2(17 - PREC)) \div Pow2(18 - PREC)
             Y2 == (Y * Y) \div S
             Q1 == (S \div 24) + (Y \div 120)
             Q2 == (S \div 2) + (Y \div 6) + ((Y2 * Q1) \div S)
         IN  Round(S + Y + ((Y2 * Q2) \div S), u - (PREC + 2))

(***************************************************************************)
(* binary64 on digits of 13 bits (least significant digit first): a value  *)
(* is [limbs, e], of value limbs * 2^e, for integers below 2^31 where it   *)
(* is converted to one.                                                    *)
(***************************************************************************)
Limb == Pow2(13)

\* The binary64 value (hi * 2^26 + lo) * 2^e, for hi < 2^27 and lo < 2^26.
B64(hi, lo, e) ==
    [limbs |-> <<lo % Limb, lo \div Limb, hi % Limb, (hi \div Limb) % Limb,
                 hi \div (Limb * Limb)>>,
     e |-> e]

LimbAt(l, k) == IF k \in 1..Len(l) THEN l[k] ELSE 0

\* The number of bits of l.
LimbsBitLen(l) ==
    LET used == {k \in 1..Len(l) : l[k] # 0}
        top == CHOOSE k \in used : \A y \in used : y <= k
    IN  IF used = {} THEN 0 ELSE 13 * (top - 1) + BitLen(l[top])

\* Long multiplication by c < 2^13.
RECURSIVE MulLimbs(_, _, _)
MulLimbs(l, c, carry) ==
    IF l = << >> THEN <<carry>>
    ELSE LET v == Head(l) * c + carry
         IN  <<v % Limb>> \o MulLimbs(Tail(l), c, v \div Limb)

\* l \div 2^s.
ShiftRight(l, s) ==
    [k \in 1..Len(l) |->
        (LimbAt(l, k + (s \div 13)) \div Pow2(s % 13))
        + (LimbAt(l, k + (s \div 13) + 1) % Pow2(s % 13)) * Pow2(13 - (s % 13))]

\* Bit x of l, bit 0 the lowest.
BitOf(l, x) == (LimbAt(l, (x \div 13) + 1) \div Pow2(x % 13)) % 2

\* Whether one of the s lowest bits of l is set.
Sticky(l, s) ==
    \E k \in 1..Len(l) :
        \/ 13 * k <= s /\ l[k] # 0
        \/ 13 * (k - 1) < s /\ s < 13 * k /\ l[k] % Pow2(s - 13 * (k - 1)) # 0

\* l + 1.
IncLimbs(l) ==
    LET open == {k \in 1..Len(l) : l[k] # Limb - 1}
        z == IF open = {} THEN Len(l) + 1 ELSE CHOOSE k \in open : \A y \in open : k <= y
    IN  [k \in 1..(IF open = {} THEN Len(l) + 1 ELSE Len(l)) |->
            IF k < z THEN 0 ELSE IF k = z THEN LimbAt(l, k) + 1 ELSE l[k]]

\* x rounded to the nearest value of p bits, ties to even.
RoundBits(x, p) ==
    LET len == LimbsBitLen(x.limbs) IN
    IF len <= p THEN x
    ELSE LET s == len - p
             kept == ShiftRight(x.limbs, s)
             up == BitOf(x.limbs, s - 1) = 1 /\ (Sticky(x.limbs, s - 1) \/ kept[1] % 2 = 1)
         IN  [limbs |-> IF up THEN IncLimbs(kept) ELSE kept, e |-> x.e + s]

\* The double product x * (c1 * c2 * 2^ce), c1 and c2 below 2^13.
MulB64(x, c1, c2, ce) ==
    RoundBits([limbs |-> MulLimbs(MulLimbs(x.limbs, c1, 0), c2, 0), e |-> x.e + ce], 53)

LimbsToInt(l) == LimbAt(l, 1) + Limb * LimbAt(l, 2) + Limb * Limb * LimbAt(l, 3)

\* ceil(x) for x >= 0.
CeilB64(x) ==
    IF x.e >= 0 THEN LimbsToInt(x.limbs) * Pow2(x.e)
    ELSE LimbsToInt(ShiftRight(x.limbs, -x.e)) + (IF Sticky(x.limbs, -x.e) THEN 1 ELSE 0)

\* The same value in the model's working precision.
ToWorking(x) ==
    LET y == RoundBits(x, PREC) IN Round(LimbsToInt(y.limbs), y.e)

\* The integer part of x (the conversion of a double to int).
TruncToInt(x) ==
    IF x.e >= 0 THEN x.m * Pow2(x.e)
    ELSE IF -x.e > PREC THEN 0
    ELSE Sgn(x.m) * (Abs(x.m) \div Pow2(-x.e))

(***************************************************************************)
(* The electrochemical constants.                                          *)
(***************************************************************************)
r == Dec(83145, 4)

t == FromInt(295)

rt == Mul(r, t)

f == FromInt(96485)

FbyRT == Div(f, rt)

\* 0.69314718056, to the nine decimals a 32-bit numerator holds.
ln2 == Dec(693147181, 9)

(***************************************************************************)
(* The arguments of a call.                                                *)
(***************************************************************************)
\* The longest pulse sequence and the longest component table.
MaxLen == 3

MaxComponents == 2

Lengths == 2..MaxLen

Potentials == {Dec(-5, 2), Dec(5, 2)}

\* What a read one past the end of DLCcorrectedSequence may find.
PastEndPotentials == {FromInt(-1), FromInt(1)}

\* What a read one past the end of a half-life buffer may find.
PastEndHalflives == {Zero, FromInt(1000)}

Periods == {Dec(1, 2)}

Resistances == {Zero, FromInt(10)}

\* Loadings, as binary64 values: 0, 2^-33, and the double nearest to 1e-9
\* (0x3E112E0BE826D695).
LoadingZero == B64(0, 0, 0)

LoadingSmall == B64(0, 1, -33)

LoadingNano == B64(72057594, 2545301, -82)

KineticConstants == {FromInt(14), FromInt(100)}

\* A row of the component table.
Component(loading, k) ==
    [loading |-> loading, kineticConst |-> k, redoxPot |-> Zero,
     symCoef |-> Dec(5, 1), z |-> FromInt(1)]

Components == {Component(LoadingSmall, FromInt(14)), Component(LoadingZero, FromInt(14))}

\* The tables of up to MaxComponents rows, and the table of the one nanomole row.
ComponentTables ==
    UNION {[0..(size - 1) -> Components] : size \in 1..MaxComponents}
    \cup {[c \in 0..0 |-> Component(LoadingNano, FromInt(100))]}

InputSequences(len) == {[x \in 0..(len - 1) |-> Dec(5, 2)]}

Calls ==
    UNION {
      {[timePeriod |-> p, resistance |-> res,
        sizeOfInputArray |-> Cardinality(DOMAIN tbl),
        lenOfPulseSequence |-> len,
        inputPulseSequence |-> inp, DLCcorrectedSequence |-> dlc,
        loadingsArray |-> [c \in DOMAIN tbl |-> tbl[c].loading],
        kineticConstArray |-> [c \in DOMAIN tbl |-> tbl[c].kineticConst],
        redoxPotArray |-> [c \in DOMAIN tbl |-> tbl[c].redoxPot],
        symCoefArray |-> [c \in DOMAIN tbl |-> tbl[c].symCoef],
        zArray |-> [c \in DOMAIN tbl |-> tbl[c].z]] :
          p \in Periods, res \in Resistances, tbl \in ComponentTables,
          inp \in InputSequences(len), dlc \in [0..(len - 1) -> Potentials]}
      : len \in Lengths}

(***************************************************************************)
(* The state of a call.                                                    *)
(***************************************************************************)
VARIABLES
    args,                       \* the arguments of redoxKineticsFull
    dlcPastEnd,                 \* the double that follows DLCcorrectedSequence in memory
    pc,                         \* the statement the call has reached
    call,                       \* 1 for the first call, 2 for its repetition
    firstTrace,                 \* the trace the first call returned
    overpotentials,
    averagedPulseSequence,
    overcorrectedPulseSequence,
    forwardK,
    backwardK,
    Ksum,
    Kratio,
    forwardKhalflife,
    backwardKhalflife,
    timeBenchmark,
    positiveScanDirection,
    cur,
    i,                          \* the component being processed
    lookupMinTreshhold,
    lookupMaxTreshold,
    LookupThresholdFound,
    loadingDivider,
    truncatedComponent,
    j,                          \* the relaxation pass
    Red0,                       \* the Red surface concentration of the current march
    n,                          \* the index of the current march
    m,                          \* the index of the correction loop
    halflifePastEnd,            \* the double that follows the half-life buffer in memory
    oobAccess,                  \* the accesses made outside 0..N-1
    curWriter                   \* for each index, the <<component, pass>> that last wrote cur

inputs == <<args, dlcPastEnd, halflifePastEnd, call, firstTrace>>

potentialBuffers == <<averagedPulseSequence, overcorrectedPulseSequence>>

rateBuffers == <<overpotentials, forwardK, backwardK, Ksum, Kratio>>

halflifeBuffers == <<forwardKhalflife, backwardKhalflife>>

window == <<lookupMinTreshhold, lookupMaxTreshold, LookupThresholdFound>>

slicing == <<loadingDivider, truncatedComponent>>

pass == <<j, Red0, n, m>>

vars == <<inputs, pc, potentialBuffers, rateBuffers, halflifeBuffers, timeBenchmark,
          positiveScanDirection, cur, i, window, slicing, pass, oobAccess, curWriter>>

N == args.lenOfPulseSequence

Indices == 0..(N - 1)

\* A buffer that new double[len] has allocated and nothing has written yet.
Fresh(len) == [x \in 0..(len - 1) |-> NaN]

NoWriter == <<-1, -1>>

Locals(a) ==
    /\ overpotentials = Fresh(a.lenOfPulseSequence)
    /\ averagedPulseSequence = Fresh(a.lenOfPulseSequence)
    /\ overcorrectedPulseSequence = Fresh(a.lenOfPulseSequence)
    /\ forwardK = Fresh(a.lenOfPulseSequence)
    /\ backwardK = Fresh(a.lenOfPulseSequence)
    /\ Ksum = Fresh(a.lenOfPulseSequence)
    /\ Kratio = Fresh(a.lenOfPulseSequence)
    /\ forwardKhalflife = Fresh(a.lenOfPulseSequence)
    /\ backwardKhalflife = Fresh(a.lenOfPulseSequence)
    /\ cur = Fresh(a.lenOfPulseSequence)
    /\ curWriter = [x \in 0..(a.lenOfPulseSequence - 1) |-> NoWriter]
    /\ timeBenchmark = Zero
    /\ positiveScanDirection = FALSE
    /\ i = 0
    /\ j = 0
    /\ Red0 = NaN
    /\ n = 0
    /\ m = 0
    /\ lookupMinTreshhold = 0
    /\ lookupMaxTreshold = 0
    /\ LookupThresholdFound = FALSE
    /\ loadingDivider = 0
    /\ truncatedComponent = Zero
    /\ oobAccess = {}

Init ==
    /\ args \in Calls
    /\ dlcPastEnd \in PastEndPotentials
    /\ halflifePastEnd \in PastEndHalflives
    /\ pc = "call"
    /\ call = 1
    /\ firstTrace = << >>
    /\ Locals(args)

(***************************************************************************)
(* Lines 17-43: the buffers, the time benchmark, the scan direction.       *)
(***************************************************************************)
\* DLCcorrectedSequence[x], for x up to lenOfPulseSequence.
DLCcorrectedAt(x) ==
    IF x \in Indices THEN args.DLCcorrectedSequence[x] ELSE dlcPastEnd

ScanDirection == Gt(DLCcorrectedAt(0), DLCcorrectedAt(N))

\* Where the component loop goes when component c is finished.
AfterComponent(c) == IF c + 1 < args.sizeOfInputArray THEN "component" ELSE "ohm"

Prologue ==
    /\ pc = "call"
    /\ averagedPulseSequence' = [x \in Indices |-> args.DLCcorrectedSequence[x]]
    /\ overcorrectedPulseSequence' = [x \in Indices |-> args.DLCcorrectedSequence[x]]
    /\ timeBenchmark' = Mul(FromInt(10), args.timePeriod)
    /\ positiveScanDirection' = ScanDirection
    /\ oobAccess' = oobAccess \cup {<<"DLCcorrectedSequence", N, "read">>}
    /\ cur' = [x \in Indices |-> Zero]
    /\ i' = 0
    /\ pc' = IF 0 < args.sizeOfInputArray THEN "component" ELSE "ohm"
    /\ UNCHANGED <<inputs, rateBuffers, halflifeBuffers, window, slicing, pass, curWriter>>

(***************************************************************************)
(* Lines 47-67: the window flags, the overpotentials, the rate constants   *)
(* and the half-lives of component i.                                      *)
(***************************************************************************)
One == FromInt(1)

BackwardRate(k, eta, z, alpha) ==
    Mul(k, Exp(Mul(Mul(Mul(Neg(eta), FbyRT), z), Sub(One, alpha))))

ForwardRate(k, eta, z, alpha) ==
    Mul(k, Exp(Mul(Mul(Mul(eta, FbyRT), z), alpha)))

Halflife(k) == Div(ln2, k)

\* Lines 47-57: the window flags and the overpotentials.
Overpotentials ==
    /\ pc = "component"
    /\ lookupMinTreshhold' = 0
    /\ lookupMaxTreshold' = N
    /\ LookupThresholdFound' = FALSE
    /\ overpotentials' =
         [x \in Indices |-> Sub(averagedPulseSequence[x], args.redoxPotArray[i])]
    /\ j' = 0
    /\ pc' = "rates"
    /\ UNCHANGED <<inputs, potentialBuffers, forwardK, backwardK, Ksum, Kratio,
                   halflifeBuffers, timeBenchmark, positiveScanDirection, cur, i, slicing,
                   Red0, n, m, oobAccess, curWriter>>

\* Lines 59-67: an iteration of the rate loop, or its end.
RateStep ==
    /\ pc = "rates"
    /\ IF j < N
       THEN /\ backwardK' =
                 [backwardK EXCEPT
                    ![j] = BackwardRate(args.kineticConstArray[i], overpotentials[j],
                                        args.zArray[i], args.symCoefArray[i])]
            /\ forwardK' =
                 [forwardK EXCEPT
                    ![j] = ForwardRate(args.kineticConstArray[i], overpotentials[j],
                                       args.zArray[i], args.symCoefArray[i])]
            /\ forwardKhalflife' = [forwardKhalflife EXCEPT ![j] = Halflife(forwardK'[j])]
            /\ backwardKhalflife' =
                 [backwardKhalflife EXCEPT ![j] = Halflife(backwardK'[j])]
            /\ j' = j + 1
            /\ UNCHANGED pc
       ELSE /\ pc' = "window"
            /\ UNCHANGED <<forwardK, backwardK, halflifeBuffers, j>>
    /\ UNCHANGED <<inputs, potentialBuffers, overpotentials, Ksum, Kratio, timeBenchmark,
                   positiveScanDirection, cur, i, window, slicing, Red0, n, m, oobAccess,
                   curWriter>>

(***************************************************************************)
(* Lines 78-146: the window of interest, the number of passes, the slice   *)
(* of the loading, Ksum and Kratio.                                        *)
(***************************************************************************)
\* The forward scan: the first index from x up whose half-life exceeds thr, or -1.
RECURSIVE ForwardScan(_, _, _)
ForwardScan(hl, thr, x) ==
    IF ~(x < N) THEN -1
    ELSE IF Gt(hl[x], thr) THEN x
    ELSE ForwardScan(hl, thr, x + 1)

\* A reverse scan that starts at the last valid index and goes down to index 0.
RECURSIVE ReverseScanInclusive(_, _, _, _)
ReverseScanInclusive(hl, past, thr, x) ==
    IF x < 0 THEN -1
    ELSE IF x \in Indices /\ Gt(hl[x], thr) THEN x
    ELSE ReverseScanInclusive(hl, past, thr, x - 1)

\* The reverse scan: from x down to 1; at x = lenOfPulseSequence it reads one past
\* the end of the buffer.
RECURSIVE ReverseScan(_, _, _, _)
ReverseScan(hl, past, thr, x) ==
    IF ~(x > 0) THEN -1
    ELSE IF Gt(IF x \in Indices THEN hl[x] ELSE past, thr) THEN x
    ELSE ReverseScan(hl, past, thr, x - 1)

\* Lines 82 and 116, lines 93 and 105: the thresholds of the half-lives.
ForwardThreshold(alpha) == Mul(timeBenchmark, Sub(One, alpha))

BackwardThreshold(alpha) == Mul(timeBenchmark, alpha)

\* Lines 82-90 and 103-113: the index the forward scan stops at, or -1.
ForwardFound(fhl, bhl, positive, alpha) ==
    IF positive THEN ForwardScan(bhl, BackwardThreshold(alpha), 0)
                ELSE ForwardScan(fhl, ForwardThreshold(alpha), 0)

\* Lines 92-100 and 114-123: the index the reverse scan stops at, or -1.
ReverseFound(fhl, bhl, past, positive, alpha) ==
    IF positive THEN ReverseScan(fhl, past, ForwardThreshold(alpha), N)
                ELSE ReverseScan(bhl, past, BackwardThreshold(alpha), N)

\* The flags as the two scans leave them.
DetectWindow(fhl, bhl, past, positive, alpha) ==
    LET fwd == ForwardFound(fhl, bhl, positive, alpha)
        rev == ReverseFound(fhl, bhl, past, positive, alpha)
    IN  [min |-> IF fwd = -1 THEN 0 ELSE fwd,
         max |-> IF rev = -1 THEN N ELSE rev,
         found |-> fwd # -1 \/ rev # -1]

\* Line 133: the double 20*loading*1000000000, as (loading * 20) * 1000000000.
LoadingProduct(loading) == MulB64(MulB64(loading, 5, 1, 2), 625, 3125, 9)

\* A divider that truncates the product where the code rounds it up.
LoadingDividerTruncated(loading) ==
    LET x == LoadingProduct(loading)
        c == IF x.e >= 0 THEN LimbsToInt(x.limbs) * Pow2(x.e)
             ELSE LimbsToInt(ShiftRight(x.limbs, -x.e))
    IN  IF c % 2 # 0 THEN c + 1 ELSE c

\* A divider that increments the even ceilings where the code increments the odd ones.
LoadingDividerOdd(loading) ==
    LET c == CeilB64(LoadingProduct(loading))
    IN  IF c % 2 = 0 THEN c + 1 ELSE c

\* Lines 133-134.
LoadingDivider(loading) ==
    LET c == CeilB64(LoadingProduct(loading))
    IN  IF c % 2 # 0 THEN c + 1 ELSE c

\* Line 136.
TruncatedComponent(loading, divider) ==
    Div(Mul(FromInt(2), ToWorking(loading)), FromInt(divider))

\* The buffer whose cell past the end the reverse scan reads.
ReverseScanned == IF positiveScanDirection THEN "forwardKhalflife" ELSE "backwardKhalflife"

ComponentWindow ==
    /\ pc = "window"
    /\ oobAccess' = oobAccess \cup {<<ReverseScanned, N, "read">>}
    /\ LET w == DetectWindow(forwardKhalflife, backwardKhalflife, halflifePastEnd,
                             positiveScanDirection, args.symCoefArray[i])
       IN  /\ lookupMinTreshhold' = w.min
           /\ lookupMaxTreshold' = w.max
           /\ LookupThresholdFound' = w.found
    /\ loadingDivider' = LoadingDivider(args.loadingsArray[i])
    /\ truncatedComponent' = TruncatedComponent(args.loadingsArray[i], loadingDivider')
    /\ Ksum' = [x \in Indices |-> Add(forwardK[x], backwardK[x])]
    /\ Kratio' = [x \in Indices |-> Div(backwardK[x], Ksum'[x])]
    /\ j' = 0
    /\ pc' = "pass"
    /\ UNCHANGED <<inputs, potentialBuffers, overpotentials, forwardK, backwardK,
                   halflifeBuffers, timeBenchmark, positiveScanDirection, cur, i,
                   Red0, n, m, curWriter>>

(***************************************************************************)
(* Lines 151-227: the relaxation loop of component i.                      *)
(***************************************************************************)
\* Lines 253-259.
startingRedConcentration(overpotential, componentLoading, z) ==
    Div(componentLoading,
        Add(One, Exp(Mul(Mul(FromInt(TruncToInt(z)), FbyRT), overpotential))))

\* Lines 262-271.
instantaneousRedConc(red0, g, kratio, ksum, time) ==
    LET gKratio == Mul(g, kratio)
    IN  Add(gKratio, Mul(Sub(red0, gKratio), Exp(Mul(Neg(ksum), time))))

\* Lines 170 and 200.
Current(red0, x) ==
    Mul(Mul(args.zArray[i], f),
        Sub(Mul(red0, forwardK[x]), Mul(Sub(truncatedComponent, red0), backwardK[x])))

\* A pass that starts its march whatever LookupThresholdFound says.
PassStartUnguarded ==
    /\ pc = "pass"
    /\ j < loadingDivider
    /\ Red0' = startingRedConcentration(overpotentials[lookupMinTreshhold],
                                        truncatedComponent, args.zArray[i])
    /\ n' = lookupMinTreshhold + 1
    /\ pc' = "march"
    /\ UNCHANGED <<inputs, potentialBuffers, rateBuffers, halflifeBuffers, timeBenchmark,
                   positiveScanDirection, cur, i, window, slicing, j, m, oobAccess,
                   curWriter>>

\* Lines 151-163 and 166 or 197: a pass begins.
PassStart ==
    /\ pc = "pass"
    /\ j < loadingDivider
    /\ Red0' = startingRedConcentration(overpotentials[lookupMinTreshhold],
                                        truncatedComponent, args.zArray[i])
    /\ IF LookupThresholdFound
       THEN /\ n' = lookupMinTreshhold + 1
            /\ pc' = "march"
            /\ j' = j
       ELSE /\ j' = j + 1
            /\ UNCHANGED <<n, pc>>
    /\ UNCHANGED <<inputs, potentialBuffers, rateBuffers, halflifeBuffers, timeBenchmark,
                   positiveScanDirection, cur, i, window, slicing, m, oobAccess,
                   curWriter>>

\* The cells an iteration of the march reads and writes when n = lenOfPulseSequence.
MarchPastEnd ==
    {<<"forwardK", N, "read">>, <<"backwardK", N, "read">>, <<"cur", N, "write">>,
     <<"Kratio", N, "read">>, <<"Ksum", N, "read">>}

\* Lines 166-181 and 197-208: an iteration of the current march, or its end.  The
\* iteration n = lenOfPulseSequence works on the cells past the end of the buffers;
\* the Red0 it leaves is never read.
MarchStep ==
    /\ pc = "march"
    /\ IF n <= lookupMaxTreshold
       THEN /\ IF n \in Indices
               THEN /\ cur' = [cur EXCEPT ![n] = Current(Red0, n)]
                    /\ curWriter' = [curWriter EXCEPT ![n] = <<i, j>>]
                    /\ Red0' = instantaneousRedConc(Red0, truncatedComponent, Kratio[n],
                                                    Ksum[n], args.timePeriod)
                    /\ UNCHANGED oobAccess
               ELSE /\ oobAccess' = oobAccess \cup MarchPastEnd
                    /\ Red0' = NaN
                    /\ UNCHANGED <<cur, curWriter>>
            /\ n' = n + 1
            /\ UNCHANGED <<pc, m>>
       ELSE /\ m' = lookupMinTreshhold
            /\ pc' = "correct"
            /\ UNCHANGED <<cur, curWriter, Red0, oobAccess, n>>
    /\ UNCHANGED <<inputs, potentialBuffers, rateBuffers, halflifeBuffers, timeBenchmark,
                   positiveScanDirection, i, window, slicing, j>>

\* Lines 185 and 213-215: the potentials of index m after the resistive correction.
FirstCorrection == Sub(overcorrectedPulseSequence[m], Mul(cur[m], args.resistance))

SecondCorrection == Div(Add(FirstCorrection, overcorrectedPulseSequence[m]), FromInt(2))

\* An odd pass that leaves overcorrectedPulseSequence[m] as it found it.
NotWrittenBack == overcorrectedPulseSequence[m]

\* Line 215: what the odd pass writes to overcorrectedPulseSequence[m].
WrittenBack == averagedPulseSequence'[m]

\* Lines 182-193 and 210-224: an iteration of the correction loop, or its end.
CorrectStep ==
    /\ pc = "correct"
    /\ IF m < lookupMaxTreshold
       THEN /\ IF j % 2 = 0
               THEN /\ overcorrectedPulseSequence' =
                         [overcorrectedPulseSequence EXCEPT ![m] = FirstCorrection]
                    /\ UNCHANGED averagedPulseSequence
               ELSE /\ averagedPulseSequence' =
                         [averagedPulseSequence EXCEPT ![m] = SecondCorrection]
                    /\ overcorrectedPulseSequence' =
                         [overcorrectedPulseSequence EXCEPT ![m] = WrittenBack]
            /\ overpotentials' =
                 [overpotentials EXCEPT
                    ![m] = Sub(overcorrectedPulseSequence'[m], args.redoxPotArray[i])]
            /\ forwardK' =
                 [forwardK EXCEPT
                    ![m] = ForwardRate(args.kineticConstArray[i], overpotentials'[m],
                                       args.zArray[i], args.symCoefArray[i])]
            /\ backwardK' =
                 [backwardK EXCEPT
                    ![m] = BackwardRate(args.kineticConstArray[i], overpotentials'[m],
                                        args.zArray[i], args.symCoefArray[i])]
            /\ Ksum' = [Ksum EXCEPT ![m] = Add(forwardK'[m], backwardK'[m])]
            /\ Kratio' = [Kratio EXCEPT ![m] = Div(backwardK'[m], Ksum'[m])]
            /\ m' = m + 1
            /\ UNCHANGED <<pc, j>>
       ELSE /\ j' = j + 1
            /\ pc' = "pass"
            /\ UNCHANGED <<potentialBuffers, rateBuffers, m>>
    /\ UNCHANGED <<inputs, halflifeBuffers, timeBenchmark, positiveScanDirection, cur, i,
                   window, slicing, Red0, n, oobAccess, curWriter>>

\* Line 151 and line 45: the relaxation loop ends, the component loop goes on.
ComponentDone ==
    /\ pc = "pass"
    /\ ~(j < loadingDivider)
    /\ i' = i + 1
    /\ pc' = AfterComponent(i)
    /\ UNCHANGED <<inputs, potentialBuffers, rateBuffers, halflifeBuffers, timeBenchmark,
                   positiveScanDirection, cur, window, slicing, pass, oobAccess,
                   curWriter>>

(***************************************************************************)
(* Lines 230-247: Ohm's law, the release of the buffers, the return.       *)
(***************************************************************************)
OhmsLaw ==
    /\ pc = "ohm"
    /\ averagedPulseSequence' =
         [x \in Indices |->
            Div(Sub(args.inputPulseSequence[x], averagedPulseSequence[x]), args.resistance)]
    /\ pc' = "release"
    /\ UNCHANGED <<inputs, overcorrectedPulseSequence, rateBuffers, halflifeBuffers,
                   timeBenchmark, positiveScanDirection, cur, i, window, slicing, pass,
                   oobAccess, curWriter>>

\* A write past the end of cur lands on the allocator's data.
HeapCorrupted == \E a \in oobAccess : a[3] = "write"

\* Lines 237-247: the buffers are released and averagedPulseSequence is returned.
Release ==
    /\ pc = "release"
    /\ pc' = "done"
    /\ UNCHANGED <<inputs, potentialBuffers, rateBuffers, halflifeBuffers, timeBenchmark,
                   positiveScanDirection, cur, i, window, slicing, pass, oobAccess,
                   curWriter>>

\* Lines 237-245: on a corrupted heap delete[] may abort the process instead.
AbortOnRelease ==
    /\ pc = "release"
    /\ HeapCorrupted
    /\ pc' = "aborted"
    /\ UNCHANGED <<inputs, potentialBuffers, rateBuffers, halflifeBuffers, timeBenchmark,
                   positiveScanDirection, cur, i, window, slicing, pass, oobAccess,
                   curWriter>>

Next ==
    \/ Prologue
    \/ Overpotentials
    \/ RateStep
    \/ ComponentWindow
    \/ PassStart
    \/ MarchStep
    \/ CorrectStep
    \/ ComponentDone
    \/ OhmsLaw
    \/ Release
    \/ AbortOnRelease

Spec == Init /\ [][Next]_vars

(***************************************************************************)
(* The same call made twice.  The exported function (redoxKinetics.h,      *)
(* lines 19-29) keeps no state between calls; what differs from one call   *)
(* to the next is the memory that lies past the end of the buffers.        *)
(***************************************************************************)
CallsTwice == {a \in Calls : a.lenOfPulseSequence = 2 /\ a.sizeOfInputArray = 1}

InitTwice ==
    /\ args \in CallsTwice
    /\ dlcPastEnd \in PastEndPotentials
    /\ halflifePastEnd \in PastEndHalflives
    /\ pc = "call"
    /\ call = 1
    /\ firstTrace = << >>
    /\ Locals(args)

\* The caller keeps the trace of the first call and calls again with the same arguments.
CallAgain ==
    /\ pc = "done"
    /\ call = 1
    /\ firstTrace' = averagedPulseSequence
    /\ call' = 2
    /\ dlcPastEnd' \in PastEndPotentials
    /\ halflifePastEnd' \in PastEndHalflives
    /\ pc' = "call"
    /\ overpotentials' = Fresh(N)
    /\ averagedPulseSequence' = Fresh(N)
    /\ overcorrectedPulseSequence' = Fresh(N)
    /\ forwardK' = Fresh(N)
    /\ backwardK' = Fresh(N)
    /\ Ksum' = Fresh(N)
    /\ Kratio' = Fresh(N)
    /\ forwardKhalflife' = Fresh(N)
    /\ backwardKhalflife' = Fresh(N)
    /\ cur' = Fresh(N)
    /\ curWriter' = [x \in Indices |-> NoWriter]
    /\ timeBenchmark' = Zero
    /\ positiveScanDirection' = FALSE
    /\ i' = 0
    /\ j' = 0
    /\ Red0' = NaN
    /\ n' = 0
    /\ m' = 0
    /\ lookupMinTreshhold' = 0
    /\ lookupMaxTreshold' = 0
    /\ LookupThresholdFound' = FALSE
    /\ loadingDivider' = 0
    /\ truncatedComponent' = Zero
    /\ oobAccess' = {}
    /\ UNCHANGED args

NextTwice ==
    \/ Prologue
    \/ Overpotentials
    \/ RateStep
    \/ ComponentWindow
    \/ PassStart
    \/ MarchStep
    \/ CorrectStep
    \/ ComponentDone
    \/ OhmsLaw
    \/ Release
    \/ AbortOnRelease
    \/ CallAgain

SpecTwice == InitTwice /\ [][NextTwice]_vars

(***************************************************************************)
(* Properties.                                                             *)
(***************************************************************************)
\* The statements of the relaxation loop of component i.
InPasses == pc \in {"pass", "march", "correct"}

\* The statements of component i that come before its relaxation loop.
InSetUp == pc \in {"component", "rates", "window"}

\* The relaxation loop of component i has not run a pass yet.
BeforeFirstPass == pc = "pass" /\ j = 0

\* C1: two calls with identical arguments return identical traces, whatever lies
\* outside the indices 0..N-1 of the arrays.
C1_SameTraceTwice == (call = 2 /\ pc = "done") => averagedPulseSequence = firstTrace

\* C2: while a component whose window was not found is processed, every step leaves
\* averagedPulseSequence, overcorrectedPulseSequence and cur as they were, and no
\* pass of it runs a current march or a correction loop.
C2_NotFoundFrame ==
    [][(InSetUp \/ (pc = "pass" /\ ~LookupThresholdFound))
          => /\ UNCHANGED <<averagedPulseSequence, overcorrectedPulseSequence, cur>>
             /\ pc' \notin {"march", "correct"}]_vars

\* A pass of a component whose window was not found has run, and more are to come.
C2_PassOfNotFound ==
    pc = "pass" /\ ~LookupThresholdFound /\ 0 < j /\ j < loadingDivider

\* C3: with resistance = 0 the call fails before any computation begins; Ohm's law is
\* never applied with resistance = 0.
C3_NoOhmsLawByZero ==
    args.resistance = Zero => pc \notin {"release", "done", "aborted"}

\* Component c has loading 0.
ZeroLoading(c) == args.loadingsArray[c] = LoadingZero

\* C4: a component of loading 0 gets loadingDivider = 0 and no pass, and every step of
\* its processing leaves averagedPulseSequence, overcorrectedPulseSequence and cur
\* as they were.
C4_ZeroLoadingFrame ==
    [][((InSetUp \/ pc = "pass") /\ ZeroLoading(i))
          => /\ UNCHANGED <<averagedPulseSequence, overcorrectedPulseSequence, cur>>
             /\ pc' \notin {"march", "correct"}
             /\ pc = "pass" => (loadingDivider = 0 /\ j = 0 /\ i' = i + 1)]_vars

\* A component of loading 0 has been processed.
C4_ZeroLoadingDone ==
    /\ pc \in {"component", "ohm"}
    /\ i > 0
    /\ ZeroLoading(i - 1)
    /\ loadingDivider = 0

\* C5: the scan direction is positive exactly when DLCcorrectedSequence[0] exceeds
\* DLCcorrectedSequence[N-1].
C5_DirectionFromLastElement ==
    pc # "call" =>
        positiveScanDirection =
            Gt(args.DLCcorrectedSequence[0], args.DLCcorrectedSequence[N - 1])

\* The window of component i, had its kinetic constant been k and the cell past the
\* end of the half-life buffer held past: the rates and the half-lives are those of
\* lines 59-67 on the overpotentials of the component.
WindowFor(k, past) ==
    LET fhl == [x \in Indices |->
                   Halflife(ForwardRate(k, overpotentials[x], args.zArray[i],
                                        args.symCoefArray[i]))]
        bhl == [x \in Indices |->
                   Halflife(BackwardRate(k, overpotentials[x], args.zArray[i],
                                         args.symCoefArray[i]))]
    IN  DetectWindow(fhl, bhl, past, positiveScanDirection, args.symCoefArray[i])

\* The kinetic constants the window of a component is compared for.
TrialKineticConstants == {FromInt(2), FromInt(14), FromInt(100)}

\* a - b > 0.
Exceeds(a, b) == Sub(a, b).m > 0

\* What the two scans of component i have found.
ForwardFoundNow ==
    ForwardFound(forwardKhalflife, backwardKhalflife, positiveScanDirection,
                 args.symCoefArray[i])

ReverseFoundNow ==
    ReverseFound(forwardKhalflife, backwardKhalflife, halflifePastEnd,
                 positiveScanDirection, args.symCoefArray[i])

\* A scan of component i has stopped at an index of 0..N-1.
FoundAtValidIndex == ForwardFoundNow # -1 \/ ReverseFoundNow \in Indices

AtMost(x, d) ==
    LET whole == IF x.e >= 0 THEN LimbsToInt(x.limbs) * Pow2(x.e)
                 ELSE LimbsToInt(ShiftRight(x.limbs, -x.e))
        fraction == x.e < 0 /\ Sticky(x.limbs, -x.e)
    IN  whole < d \/ (whole = d /\ ~fraction)

\* C7: for a component of loading > 0, loadingDivider is the smallest even integer
\* that is at least the double 20*loading*1000000000, truncatedComponent is
\* 2*loading/loadingDivider, exactly loadingDivider passes are run, and the double
\* nearest to 1e-9 gives loadingDivider = 20.
C7_Slicing ==
    /\ (InPasses /\ ~ZeroLoading(i)) =>
          /\ loadingDivider % 2 = 0
          /\ AtMost(LoadingProduct(args.loadingsArray[i]), loadingDivider)
          /\ ~AtMost(LoadingProduct(args.loadingsArray[i]), loadingDivider - 2)
          /\ truncatedComponent =
                Div(Mul(FromInt(2), ToWorking(args.loadingsArray[i])),
                    FromInt(loadingDivider))
          /\ j <= loadingDivider
          /\ pc # "pass" => j < loadingDivider
          /\ args.loadingsArray[i] = LoadingNano => loadingDivider = 20
    /\ (pc \in {"component", "ohm"} /\ i > 0 /\ ~ZeroLoading(i - 1)) =>
          j = loadingDivider

\* The component of loading 1e-9 has had its 20 passes.
C7_TwentyPasses ==
    /\ pc = "ohm"
    /\ i = 1
    /\ args.loadingsArray[0] = LoadingNano
    /\ j = 20

\* averagedPulseSequence and overcorrectedPulseSequence differ at index x.
Differ(x) == averagedPulseSequence[x] # overcorrectedPulseSequence[x]

\* C8: the two potential buffers agree before the first component and after the
\* passes of each component; they differ only from the correction loop of an even
\* pass to the correction loop of the odd pass that follows, and only at indices of
\* the window.
C8_BuffersAgree ==
    /\ (InSetUp \/ pc = "ohm") => \A x \in Indices : ~Differ(x)
    /\ InPasses =>
          \A x \in Indices :
              Differ(x) =>
                  /\ lookupMinTreshhold <= x
                  /\ x < lookupMaxTreshold
                  /\ IF j % 2 = 0 THEN pc = "correct" /\ x < m
                                  ELSE pc = "correct" => x >= m

\* An even pass is over, the odd pass has not begun, and the buffers differ.
C8_BetweenEvenAndOdd ==
    /\ pc = "pass"
    /\ j % 2 = 1
    /\ \E x \in Indices : Differ(x)

\* The valid indices whose half-life exceeds the threshold of the reverse scan.
ReverseQualifying ==
    IF positiveScanDirection
    THEN {x \in Indices :
            Gt(forwardKhalflife[x], ForwardThreshold(args.symCoefArray[i]))}
    ELSE {x \in Indices :
            Gt(backwardKhalflife[x], BackwardThreshold(args.symCoefArray[i]))}

\* C9: if index 0 is the only valid index whose half-life exceeds the threshold of
\* the reverse scan, the window is found with lookupMaxTreshold = 0.
C9_ReverseScanReachesZero ==
    (pc = "pass" /\ ReverseQualifying = {0}) =>
        (LookupThresholdFound /\ lookupMaxTreshold = 0)

C11_AccessesInRange == \A a \in oobAccess : a[2] \in Indices

\* C12: the cur[m] that an iteration of a correction loop multiplies by the resistance
\* was written by the current march of the same pass of the same component.
C12_CurrentOfSamePass ==
    (pc = "correct" /\ m < lookupMaxTreshold) => curWriter[m] = <<i, j>>
====
